---- MODULE Spec2Model ----
(***************************************************************************)
(* Model of ai_project_cli.py: the conversational loop of main, the retry  *)
(* and repair loop of chat_with_ai, the approval gate, execute_action and  *)
(* the persisted project state.                                            *)
(*                                                                         *)
(* Paths are sequences of components (Path.cwd() is <<"cwd">>, p / q is    *)
(* p \o q); the file system is a function from the existing paths to      *)
(* directory or file entries; a file's content is the sequence of strings  *)
(* written to it.  A chat message {"role": r, "parts": [{"text": t}]} is   *)
(* the record [role |-> r, text |-> t].                                    *)
(***************************************************************************)
EXTENDS Integers, Sequences, FiniteSets, TLC

VARIABLES
    fs,            \* the local file system: path -> entry
    API_KEY,       \* global API_KEY (None until load_api_key succeeds)
    chat_history,  \* global chat_history
    root_dir,      \* global root_dir (None when unset)
    state_file,    \* content of STATE_FILE (None when the file is absent)
    pc,            \* where main is: start, prompt, request, approve, ended
    ended_by,      \* why main ended: "credential", "exit" or an exception
    caller,        \* which call of chat_with_ai is running: greet or turn
    retries,       \* local retries of chat_with_ai
    response,      \* local response of chat_with_ai: unbound or bound
    slept,         \* the time.sleep delays of the running call, in order
    sent,          \* contents of the last request posted
    pending,       \* the response main holds while it waits for approval
    h0,            \* chat_history when the running call was entered
    requests,      \* number of requests the running call has posted
    last_reply,    \* outcome of the last request posted
    exec_log,      \* actions passed to execute_action in the running turn
    prompts,       \* approval prompts issued in the running turn
    answer,        \* the operator's last answer to the approval prompt
    reported       \* the last line execute_action printed

vars == <<fs, API_KEY, chat_history, root_dir, state_file, pc, ended_by,
          caller, retries, response, slept, sent, pending, h0, requests,
          last_reply, exec_log, prompts, answer, reported>>

-----------------------------------------------------------------------------
(* Bounds of the model *)

MaxHist == 7       \* longest chat_history explored

(* Program constants *)

MaxRetries == 5
MinKeyLen == 30
BackoffBase == 2

None == <<>>
cwd == <<"cwd">>
MILESTONE_FILE == "milestones.json"
API_KEY_FILE == "api_key.txt"
CREATE_DIR == "__CREATE_DIR__"

-----------------------------------------------------------------------------
(* Messages *)

Msg(role, text) == [role |-> role, text |-> text]

get_base_prompt == "You are a junior developer and project manager AI assistant."

GreetInput == "Greet me."

RetryPromptJSON ==
    "The previous response was not a valid JSON object. The error was: JSONDecodeError"

RetryPromptKey ==
    "The previous response was not a valid JSON object. The error was: KeyError"

DeclineNotice ==
    "I did not approve the previous action. Let's try something else."

RetryPrompts == {RetryPromptJSON, RetryPromptKey}

-----------------------------------------------------------------------------
(* Values decoded from JSON.  A dict is a record that lists the keys it    *)
(* holds in "keys"; a field whose key is absent holds a default that no    *)
(* code path reads before testing the key.                                 *)

NoPayload ==
    [keys |-> {}, project_name |-> "", items |-> <<>>, milestones |-> <<>>,
     title |-> "", audience |-> "", slides |-> <<>>]

NoAction == [type |-> "none", keys |-> {}, command |-> "", payload |-> NoPayload]

Act(command, payload) ==
    [type |-> "dict", keys |-> {"command", "payload"}, command |-> command,
     payload |-> payload]

Resp(keys, approval, action) ==
    [type |-> "dict", size |-> Cardinality(keys), keys |-> keys,
     requires_approval |-> approval, action |-> action]

AllKeys == {"message", "requires_approval", "action"}

(* The reply texts the remote model may produce *)

T_talk ==
    "{\"message\":\"Hello\",\"requires_approval\":false,\"action\":{\"command\":\"no_action\",\"payload\":{}}}"
T_init ==
    "{\"message\":\"ok\",\"requires_approval\":true,\"action\":{\"command\":\"init_project\",\"payload\":{\"project_name\":\"app\"}}}"
T_init_ask ==
    "{\"message\":\"ok\",\"action\":{\"command\":\"init_project\",\"payload\":{}}}"
T_init_keyfile ==
    "{\"message\":\"ok\",\"requires_approval\":true,\"action\":{\"command\":\"init_project\",\"payload\":{\"project_name\":\"api_key.txt\"}}}"
T_files ==
    "{\"message\":\"ok\",\"requires_approval\":true,\"action\":{\"command\":\"create_files\",\"payload\":{\"src\":\"__CREATE_DIR__\",\"src/main.py\":\"print(1)\"}}}"
T_files_clash ==
    "{\"message\":\"ok\",\"requires_approval\":false,\"action\":{\"command\":\"create_files\",\"payload\":{\"src/main.py\":\"print(2)\",\"src\":\"text\",\"README.md\":\"\"}}}"
T_list ==
    "{\"message\":\"ok\",\"requires_approval\":false,\"action\":{\"command\":\"list_files\",\"payload\":{\"directory\":\".\"}}}"
T_miles ==
    "{\"message\":\"ok\",\"requires_approval\":true,\"action\":{\"command\":\"milestones\",\"payload\":{\"milestones\":[\"MVP\",\"Beta\"]}}}"
T_miles2 ==
    "{\"message\":\"ok\",\"action\":{\"command\":\"milestones\",\"payload\":{\"milestones\":[\"GA\"]}}}"
T_plan ==
    "{\"message\":\"ok\",\"requires_approval\":true,\"action\":{\"command\":\"create_presentation_plan\",\"payload\":{\"title\":\"Q3 Review\",\"audience\":\"Execs\",\"slides\":[{\"heading\":\"Intro\",\"content\":\"Hello\"}]}}}"
T_unknown ==
    "{\"message\":\"ok\",\"requires_approval\":false,\"action\":{\"payload\":{}}}"
T_no_message ==
    "{\"requires_approval\":false,\"action\":{\"command\":\"no_action\",\"payload\":{}}}"
T_action_str ==
    "{\"message\":\"ok\",\"requires_approval\":true,\"action\":\"create_files\"}"
T_list_value == "[1]"
T_empty == "{}"
T_prose == "Sure! Here is what I will do."

Texts ==
    {T_talk, T_init, T_init_ask, T_init_keyfile, T_files, T_files_clash,
     T_list, T_miles, T_miles2, T_plan, T_unknown, T_no_message, T_action_str,
     T_list_value, T_empty, T_prose}

(* json.loads(raw_content): the decoded value, or the JSONDecodeError it   *)
(* raises (a value of type "JSONDecodeError")                               *)
json_loads(text) ==
    CASE text = T_talk ->
           Resp(AllKeys, FALSE, Act("no_action", NoPayload))
      [] text = T_init ->
           Resp(AllKeys, TRUE,
                Act("init_project",
                    [NoPayload EXCEPT !.keys = {"project_name"},
                                      !.project_name = "app"]))
      [] text = T_init_ask ->
           Resp({"message", "action"}, FALSE, Act("init_project", NoPayload))
      [] text = T_init_keyfile ->
           Resp(AllKeys, TRUE,
                Act("init_project",
                    [NoPayload EXCEPT !.keys = {"project_name"},
                                      !.project_name = API_KEY_FILE]))
      [] text = T_files ->
           Resp(AllKeys, TRUE,
                Act("create_files",
                    [NoPayload EXCEPT !.keys = {"src", "src/main.py"},
                       !.items = << <<(<<"src">>), CREATE_DIR>>,
                                    <<(<<"src", "main.py">>), "print(1)">> >>]))
      [] text = T_files_clash ->
           Resp(AllKeys, FALSE,
                Act("create_files",
                    [NoPayload EXCEPT
                       !.keys = {"src/main.py", "src", "README.md"},
                       !.items = << <<(<<"src", "main.py">>), "print(2)">>,
                                    <<(<<"src">>), "text">>,
                                    <<(<<"README.md">>), "">> >>]))
      [] text = T_list ->
           Resp(AllKeys, FALSE,
                Act("list_files", [NoPayload EXCEPT !.keys = {"directory"}]))
      [] text = T_miles ->
           Resp(AllKeys, TRUE,
                Act("milestones",
                    [NoPayload EXCEPT !.keys = {"milestones"},
                                      !.milestones = <<"MVP", "Beta">>]))
      [] text = T_miles2 ->
           Resp({"message", "action"}, FALSE,
                Act("milestones",
                    [NoPayload EXCEPT !.keys = {"milestones"},
                                      !.milestones = <<"GA">>]))
      [] text = T_plan ->
           Resp(AllKeys, TRUE,
                Act("create_presentation_plan",
                    [NoPayload EXCEPT
                       !.keys = {"title", "audience", "slides"},
                       !.title = "Q3 Review", !.audience = "Execs",
                       !.slides = <<[heading |-> "Intro",
                                     content |-> "Hello"]>>]))
      [] text = T_unknown ->
           Resp(AllKeys, FALSE,
                [type |-> "dict", keys |-> {"payload"}, command |-> "",
                 payload |-> NoPayload])
      [] text = T_no_message ->
           Resp({"requires_approval", "action"}, FALSE,
                Act("no_action", NoPayload))
      [] text = T_action_str ->
           Resp(AllKeys, TRUE,
                [type |-> "str", keys |-> {}, command |-> "",
                 payload |-> NoPayload])
      [] text = T_list_value ->
           [type |-> "list", size |-> 1, keys |-> {},
            requires_approval |-> FALSE, action |-> NoAction]
      [] text = T_empty -> Resp({}, FALSE, NoAction)
      [] OTHER ->
           [type |-> "JSONDecodeError", size |-> 0, keys |-> {},
            requires_approval |-> FALSE, action |-> NoAction]

(* bool(value) for the decoded values *)
Truthy(value) == value.size > 0
ActionTruthy(action) ==
    \/ action.type = "str"
    \/ action.type = "dict" /\ action.keys # {}

-----------------------------------------------------------------------------
(* The file system *)

Dir == [kind |-> "dir", content |-> <<>>]
File(content) == [kind |-> "file", content |-> content]

Exists(f, p) == p \in DOMAIN f
IsDir(f, p) == Exists(f, p) /\ f[p].kind = "dir"
IsFile(f, p) == Exists(f, p) /\ f[p].kind = "file"

Parent(p) == SubSeq(p, 1, Len(p) - 1)
Prefixes(p) == {SubSeq(p, 1, k) : k \in 1..Len(p)}

Put(f, p, e) == [q \in DOMAIN f \cup {p} |-> IF q = p THEN e ELSE f[q]]

(* Path.mkdir(parents=True, exist_ok=True): every missing prefix of p      *)
(* becomes a directory; FileExistsError or NotADirectoryError when a       *)
(* prefix of p is a file                                                    *)
mkdir(f, p) ==
    IF \E q \in Prefixes(p) : IsFile(f, q)
    THEN [ok |-> FALSE, fs |-> f]
    ELSE [ok |-> TRUE,
          fs |-> [q \in DOMAIN f \cup Prefixes(p) |->
                    IF q \in DOMAIN f THEN f[q] ELSE Dir]]

(* what f.write(text) adds to a file: nothing for the empty string *)
Written(text) == IF text = "" THEN <<>> ELSE <<text>>

(* open_w that opens in append mode: the content is added to the file's *)
open_a(f, p, content) ==
    IF IsDir(f, p) \/ ~IsDir(f, Parent(p))
    THEN [ok |-> FALSE, fs |-> f]
    ELSE [ok |-> TRUE,
          fs |-> Put(f, p, File((IF IsFile(f, p) THEN f[p].content ELSE <<>>)
                                \o content))]

(* open(p, 'w') and the writes that follow: the file is replaced by the    *)
(* content; OSError when p is a directory or its parent is no directory    *)
open_w(f, p, content) ==
    IF IsDir(f, p) \/ ~IsDir(f, Parent(p))
    THEN [ok |-> FALSE, fs |-> f]
    ELSE [ok |-> TRUE, fs |-> Put(f, p, File(content))]

(* str that keeps only the last component (path.name) *)
str_name(p) == IF Len(p) = 0 THEN <<>> ELSE <<p[Len(p)]>>

(* str(path) and Path(string): the components joined by, and split at,     *)
(* the separator                                                            *)
RECURSIVE str(_)
str(p) ==
    IF Len(p) = 0 THEN <<>>
    ELSE IF Len(p) = 1 THEN p
    ELSE str(Parent(p)) \o <<"/", p[Len(p)]>>

Path(s) == SelectSeq(s, LAMBDA c : c # "/")

-----------------------------------------------------------------------------
(* The persisted project state *)

NoStateFile == [exists |-> FALSE, root_dir |-> <<>>, chat_history |-> <<>>]

(* save_project_state: STATE_FILE is overwritten when root_dir is set *)
save_project_state(rd, hist, sf) ==
    IF rd # None
    THEN [exists |-> TRUE, root_dir |-> str(rd), chat_history |-> hist]
    ELSE sf

(* load_project_state with the globals root_dir and chat_history: whether *)
(* STATE_FILE was found, and the globals afterwards                        *)
load_project_state(sf, rd, hist) ==
    IF sf.exists
    THEN [loaded |-> TRUE,
          root_dir |-> IF sf.root_dir # <<>> THEN Path(sf.root_dir) ELSE rd,
          chat_history |-> sf.chat_history]
    ELSE [loaded |-> FALSE, root_dir |-> rd, chat_history |-> hist]

-----------------------------------------------------------------------------
(* execute_action *)

Outcome(f, rd, sf, exc, line) ==
    [fs |-> f, root_dir |-> rd, state_file |-> sf, exc |-> exc,
     reported |-> line]

(* the loop of create_files over payload.items(); an OSError leaves the    *)
(* loop at the path that raised it                                          *)
RECURSIVE create_files(_, _, _)
create_files(items, rd, f) ==
    IF items = <<>> THEN [ok |-> TRUE, fs |-> f]
    ELSE LET item_path == rd \o items[1][1]
             content == items[1][2]
             made == IF content = CREATE_DIR
                     THEN mkdir(f, item_path)
                     ELSE LET parent == mkdir(f, Parent(item_path))
                          IN  IF parent.ok
                              THEN open_w(parent.fs, item_path, Written(content))
                              ELSE parent
         IN  IF made.ok THEN create_files(Tail(items), rd, made.fs) ELSE made

(* json.dump(payload) of the milestones command *)
json_dump(payload) ==
    IF "milestones" \in payload.keys
    THEN <<"{", "\"milestones\":", "[">> \o payload.milestones \o <<"]", "}">>
    ELSE <<"{", "}">>

(* json.load of a file that holds a JSON document: an object with at most *)
(* the key "milestones", or a list; items are the entries of the list      *)
json_load(tokens) ==
    LET n == Len(tokens)
    IN  IF tokens = <<"{", "}">>
        THEN [type |-> "dict", keys |-> {}, items |-> <<>>]
        ELSE IF n >= 5 /\ SubSeq(tokens, 1, 3) = <<"{", "\"milestones\":", "[">>
                /\ SubSeq(tokens, n - 1, n) = <<"]", "}">>
        THEN [type |-> "dict", keys |-> {"milestones"},
              items |-> SubSeq(tokens, 4, n - 2)]
        ELSE IF n >= 2 /\ tokens[1] = "[" /\ tokens[n] = "]"
        THEN [type |-> "list", keys |-> {}, items |-> SubSeq(tokens, 2, n - 1)]
        ELSE [type |-> "JSONDecodeError", keys |-> {}, items |-> <<>>]

(* title.replace(" ", "-").lower() followed by ".md" *)
PlanFile(payload) ==
    IF "title" \in payload.keys /\ payload.title = "Q3 Review"
    THEN "q3-review.md"
    ELSE "presentation-plan.md"

RECURSIVE SlideText(_, _)
SlideText(slides, i) ==
    IF i > Len(slides) THEN <<>>
    ELSE <<"## Slide ", ToString(i), ": ", slides[i].heading, "\n\n",
           slides[i].content, "\n\n---\n\n">> \o SlideText(slides, i + 1)

PlanText(payload) ==
    <<"# ",
      IF "title" \in payload.keys THEN payload.title ELSE "Presentation Title",
      "\n", "**Audience:** ",
      IF "audience" \in payload.keys THEN payload.audience ELSE "General",
      "\n\n---\n\n">> \o SlideText(payload.slides, 1)

(* lines 186-194, init_project: root_dir is assigned before the directory *)
(* is made; name is what the operator types when asked for the name        *)
init_project(payload, name, f, rd, sf, hist) ==
    LET project_name == IF payload.project_name # ""
                        THEN payload.project_name ELSE name
        new_root == cwd \o <<project_name>>
        made == mkdir(f, new_root)
    IN  IF made.ok
        THEN Outcome(made.fs, new_root,
                     save_project_state(new_root, hist, sf), "",
                     "Project directory created")
        ELSE Outcome(f, new_root, sf, "OSError", "")

(* lines 196-213, create_files *)
cmd_create_files(payload, f, rd, sf) ==
    IF rd = None
    THEN Outcome(f, rd, sf, "", "Error: You must first initialize a project.")
    ELSE LET done == create_files(payload.items, rd, f)
         IN  Outcome(done.fs, rd, sf, IF done.ok THEN "" ELSE "OSError",
                     "Created")

(* list_files that makes the working directory the project root *)
list_files_chdir(payload, f, rd, sf) ==
    IF rd = None
    THEN Outcome(f, rd, sf, "", "Please create a project first.")
    ELSE Outcome(f, cwd, sf, "", "Directory structure")

(* lines 215-228, list_files *)
list_files(payload, f, rd, sf) ==
    IF rd = None
    THEN Outcome(f, rd, sf, "", "Please create a project first.")
    ELSE Outcome(f, rd, sf, "", "Directory structure")

(* milestones that falls back to the working directory without a root_dir *)
milestones_in_cwd(payload, f, rd, sf) ==
    LET dir == IF rd = None THEN cwd ELSE rd
        wrote == open_w(f, dir \o <<MILESTONE_FILE>>, json_dump(payload))
    IN  IF wrote.ok
        THEN Outcome(wrote.fs, rd, sf, "", "Updated milestones")
        ELSE Outcome(f, rd, sf, "", "Error writing to milestone file")

(* milestones that extends the list already in the file *)
milestones_merge(payload, f, rd, sf) ==
    IF rd = None
    THEN Outcome(f, rd, sf, "", "Please create a project first.")
    ELSE LET path == rd \o <<MILESTONE_FILE>>
             old == IF IsFile(f, path) THEN json_load(f[path].content).items
                    ELSE <<>>
             wrote == open_w(f, path,
                             json_dump([payload EXCEPT !.milestones = old \o @]))
         IN  IF wrote.ok
             THEN Outcome(wrote.fs, rd, sf, "", "Updated milestones")
             ELSE Outcome(f, rd, sf, "", "Error writing to milestone file")

(* lines 230-241, milestones: the write is inside try/except Exception *)
milestones(payload, f, rd, sf) ==
    IF rd = None
    THEN Outcome(f, rd, sf, "", "Please create a project first.")
    ELSE LET wrote == open_w(f, rd \o <<MILESTONE_FILE>>, json_dump(payload))
         IN  IF wrote.ok
             THEN Outcome(wrote.fs, rd, sf, "", "Updated milestones")
             ELSE Outcome(f, rd, sf, "", "Error writing to milestone file")

(* lines 243-263, create_presentation_plan *)
create_presentation_plan(payload, f, rd, sf) ==
    IF rd = None
    THEN Outcome(f, rd, sf, "", "Please create a project first.")
    ELSE LET wrote == open_w(f, rd \o <<PlanFile(payload)>>, PlanText(payload))
         IN  IF wrote.ok
             THEN Outcome(wrote.fs, rd, sf, "", "Created presentation plan")
             ELSE Outcome(f, rd, sf, "", "Error writing presentation plan")

(* execute_action(action) with the globals fs, root_dir, state_file and    *)
(* chat_history.  exc names the exception that leaves the function: an     *)
(* action that is no dict has no get (AttributeError).                     *)
execute_action(action, name, f, rd, sf, hist) ==
    IF action.type # "dict" THEN Outcome(f, rd, sf, "AttributeError", "")
    ELSE
    LET command == action.command
        payload == action.payload
    IN
    CASE command = "init_project" ->
           init_project(payload, name, f, rd, sf, hist)
      [] command = "create_files" -> cmd_create_files(payload, f, rd, sf)
      [] command = "list_files" -> list_files(payload, f, rd, sf)
      [] command = "milestones" -> milestones(payload, f, rd, sf)
      [] command = "create_presentation_plan" ->
           create_presentation_plan(payload, f, rd, sf)
      [] command = "no_action" -> Outcome(f, rd, sf, "", "")
      [] OTHER -> Outcome(f, rd, sf, "", "Unknown command received from AI")

-----------------------------------------------------------------------------
(* The credential file *)

Whitespace == {" ", "\n"}

(* str.strip() on a sequence of characters *)
RECURSIVE strip(_)
strip(s) ==
    IF s = <<>> THEN s
    ELSE IF Head(s) \in Whitespace THEN strip(Tail(s))
    ELSE IF s[Len(s)] \in Whitespace THEN strip(SubSeq(s, 1, Len(s) - 1))
    ELSE s

ValidKey == [i \in 1..39 |-> "k"] \o <<"\n">>
ShortKey == <<" ", "k", "k", "k", "\n">>
BlankKey == <<"\n">>
KeyFiles == {ValidKey, ShortKey, BlankKey}

(* load_api_key without the test of the key's length *)
load_api_key_any_length(f) ==
    IF ~IsFile(f, cwd \o <<API_KEY_FILE>>) THEN None
    ELSE strip(f[cwd \o <<API_KEY_FILE>>].content)

(* load_api_key: the trimmed key, or None *)
load_api_key(f) ==
    IF ~IsFile(f, cwd \o <<API_KEY_FILE>>) THEN None
    ELSE LET key == strip(f[cwd \o <<API_KEY_FILE>>].content)
         IN  IF key = <<>> \/ Len(key) < MinKeyLen THEN None ELSE key

-----------------------------------------------------------------------------
(* Operator input *)

Inputs == {"hi", "exit", "QUIT"}
Answers == {"y", "Y", "n", "yes"}
Names == {"app"}

(* lower that also shortens an answer to its first letter *)
lower_first_letter(text) ==
    CASE text = "QUIT" -> "quit"
      [] text = "Y" -> "y"
      [] text = "yes" -> "y"
      [] OTHER -> text

(* str.lower() on the operator's inputs *)
lower(text) ==
    CASE text = "QUIT" -> "quit"
      [] text = "Y" -> "y"
      [] OTHER -> text

-----------------------------------------------------------------------------
(* Initial states: the working directory holds the credential file or not, *)
(* and either no state file or the state file a previous run saved after   *)
(* its greeting call failed and its first turn initialised the project     *)
(* "app".                                                                   *)

SavedHistory ==
    <<Msg("user", get_base_prompt), Msg("user", GreetInput),
      Msg("user", "hi"), Msg("model", T_init_ask)>>

SavedSession ==
    [exists |-> TRUE, root_dir |-> str(cwd \o <<"app">>),
     chat_history |-> SavedHistory]

EmptyDisk == (cwd :> Dir)

Init ==
    /\ \E withKey \in BOOLEAN, key \in KeyFiles, resume \in BOOLEAN :
         /\ state_file = IF resume THEN SavedSession ELSE NoStateFile
         /\ fs = LET f == IF withKey
                          THEN Put(EmptyDisk, cwd \o <<API_KEY_FILE>>, File(key))
                          ELSE EmptyDisk
                 IN  IF resume THEN Put(f, cwd \o <<"app">>, Dir) ELSE f
    /\ API_KEY = None
    /\ chat_history = <<>>
    /\ root_dir = None
    /\ pc = "start"
    /\ ended_by = ""
    /\ caller = ""
    /\ retries = 0
    /\ response = "unbound"
    /\ slept = <<>>
    /\ sent = <<>>
    /\ pending = NoAction
    /\ h0 = <<>>
    /\ requests = 0
    /\ last_reply = ""
    /\ exec_log = <<>>
    /\ prompts = 0
    /\ answer = "(none)"
    /\ reported = ""

-----------------------------------------------------------------------------
(* chat_with_ai *)

(* payload_contents as a copy of the history taken when the call starts *)
payload_snapshot == SubSeq(chat_history, 1, Len(h0) + 1)

(* lines 134-139 and 148: the request body holds the chat_history list     *)
(* itself, so every post carries the list as it is at that moment          *)
payload_contents == chat_history

(* ChatEnter that starts the history over with the new message *)
ChatEnter_fresh(hist, user_input, who) ==
    /\ chat_history' = <<Msg("user", user_input)>>
    /\ h0' = hist
    /\ caller' = who
    /\ retries' = 0
    /\ response' = "unbound"
    /\ slept' = <<>>
    /\ requests' = 0
    /\ pc' = "request"

(* lines 129-142: the user's message is appended and the loop is entered *)
ChatEnter(hist, user_input, who) ==
    /\ chat_history' = Append(hist, Msg("user", user_input))
    /\ h0' = hist
    /\ caller' = who
    /\ retries' = 0
    /\ response' = "unbound"
    /\ slept' = <<>>
    /\ requests' = 0
    /\ pc' = "request"

(* the None that chat_with_ai returns at line 175, as a decoded value *)
NoReply ==
    [type |-> "None", size |-> 0, keys |-> {}, requires_approval |-> FALSE,
     action |-> NoAction]

Step(next, why, out, pend, log, asked) ==
    [pc |-> next, ended_by |-> why, fs |-> out.fs, root_dir |-> out.root_dir,
     state_file |-> out.state_file, reported |-> out.reported,
     pending |-> pend, exec_log |-> log, prompts |-> asked]

(* execute_action(action) followed by save_project_state(), lines 341-342  *)
(* and 348-349                                                              *)
RunAction(action, name, hist) ==
    LET out == execute_action(action, name, fs, root_dir, state_file, hist)
        log == Append(exec_log, action)
    IN  IF out.exc # ""
        THEN Step("ended", out.exc, out, NoAction, log, prompts)
        ELSE Step("prompt", "",
                  [out EXCEPT !.state_file =
                     save_project_state(out.root_dir, hist, out.state_file)],
                  NoAction, log, prompts)

(* AfterChat that asks for approval whatever the reply's flag says *)
AfterChat_always_asks(value, name, hist) ==
    LET same == Outcome(fs, root_dir, state_file, "", reported)
        stay == Step("prompt", "", same, NoAction, exec_log, prompts)
        action == IF "action" \in value.keys THEN value.action ELSE NoAction
        requires_approval == TRUE
    IN  IF ~Truthy(value) THEN stay
        ELSE IF value.type # "dict"
        THEN Step("ended", "TypeError", same, NoAction, exec_log, prompts)
        ELSE IF "message" \notin value.keys
        THEN Step("ended", "KeyError", same, NoAction, exec_log, prompts)
        ELSE IF caller = "greet" THEN stay
        ELSE IF ActionTruthy(action) /\ requires_approval
        THEN IF action.type # "dict"
             THEN Step("ended", "AttributeError", same, NoAction, exec_log,
                       prompts)
             ELSE Step("approve", "", same, action, exec_log, prompts + 1)
        ELSE IF ActionTruthy(action) THEN RunAction(action, name, hist)
        ELSE stay

(* AfterChat that saves the project state also when the turn failed *)
AfterChat_saves_failed_turn(value, name, hist) ==
    LET same == Outcome(fs, root_dir, state_file, "", reported)
        stay == Step("prompt", "", same, NoAction, exec_log, prompts)
        action == IF "action" \in value.keys THEN value.action ELSE NoAction
        requires_approval ==
            IF "requires_approval" \in value.keys
            THEN value.requires_approval ELSE FALSE
    IN  IF ~Truthy(value)
        THEN Step("prompt", "",
                  [same EXCEPT !.state_file =
                     save_project_state(root_dir, hist, state_file)],
                  NoAction, exec_log, prompts)
        ELSE IF value.type # "dict"
        THEN Step("ended", "TypeError", same, NoAction, exec_log, prompts)
        ELSE IF "message" \notin value.keys
        THEN Step("ended", "KeyError", same, NoAction, exec_log, prompts)
        ELSE IF caller = "greet" THEN stay
        ELSE IF ActionTruthy(action) /\ requires_approval
        THEN IF action.type # "dict"
             THEN Step("ended", "AttributeError", same, NoAction, exec_log,
                       prompts)
             ELSE Step("approve", "", same, action, exec_log, prompts + 1)
        ELSE IF ActionTruthy(action) THEN RunAction(action, name, hist)
        ELSE stay

(* what main does with the value chat_with_ai returned (lines 295-296 for  *)
(* the greeting, lines 308-351 for a turn): the state main is in when it   *)
(* next blocks or ends.  value is a decoded reply, or NoReply for None.    *)
AfterChat(value, name, hist) ==
    LET same == Outcome(fs, root_dir, state_file, "", reported)
        stay == Step("prompt", "", same, NoAction, exec_log, prompts)
        action == IF "action" \in value.keys THEN value.action ELSE NoAction
        requires_approval ==
            IF "requires_approval" \in value.keys
            THEN value.requires_approval ELSE FALSE
    IN  IF ~Truthy(value) THEN stay
        ELSE IF value.type # "dict"
        THEN Step("ended", "TypeError", same, NoAction, exec_log, prompts)
        ELSE IF "message" \notin value.keys
        THEN Step("ended", "KeyError", same, NoAction, exec_log, prompts)
        ELSE IF caller = "greet" THEN stay
        ELSE IF ActionTruthy(action) /\ requires_approval
        THEN IF action.type # "dict"
             THEN Step("ended", "AttributeError", same, NoAction, exec_log,
                       prompts)
             ELSE Step("approve", "", same, action, exec_log, prompts + 1)
        ELSE IF ActionTruthy(action) THEN RunAction(action, name, hist)
        ELSE stay

Goto(step) ==
    /\ pc' = step.pc
    /\ ended_by' = step.ended_by
    /\ fs' = step.fs
    /\ root_dir' = step.root_dir
    /\ state_file' = step.state_file
    /\ reported' = step.reported
    /\ pending' = step.pending
    /\ exec_log' = step.exec_log
    /\ prompts' = step.prompts

Exceptions ==
    {"UnboundLocalError", "TypeError", "KeyError", "AttributeError", "OSError"}

-----------------------------------------------------------------------------
(* Actions *)

(* main, lines 280-296: the credential is loaded, then the saved state;    *)
(* without a saved state the base prompt is appended and the greeting call *)
(* is entered                                                               *)
Start ==
    /\ pc = "start"
    /\ LET key == load_api_key(fs)
       IN  IF key = None
           THEN /\ pc' = "ended"
                /\ ended_by' = "credential"
                /\ UNCHANGED <<API_KEY, chat_history, root_dir, caller,
                               retries, response, slept, h0, requests>>
           ELSE /\ API_KEY' = key
                /\ ended_by' = ""
                /\ IF load_project_state(state_file, root_dir,
                                         chat_history).loaded
                   THEN /\ root_dir' =
                             load_project_state(state_file, root_dir,
                                                chat_history).root_dir
                        /\ chat_history' =
                             load_project_state(state_file, root_dir,
                                                chat_history).chat_history
                        /\ pc' = "prompt"
                        /\ UNCHANGED <<caller, retries, response, slept, h0,
                                       requests>>
                   ELSE /\ ChatEnter(Append(chat_history,
                                            Msg("user", get_base_prompt)),
                                     GreetInput, "greet")
                        /\ root_dir' = root_dir
    /\ UNCHANGED <<fs, state_file, sent, pending, last_reply, exec_log,
                   prompts, answer, reported>>

(* main, lines 300-306: the operator's input ends the loop or starts a turn *)
UserInput(user_input) ==
    /\ pc = "prompt"
    /\ IF lower(user_input) \in {"exit", "quit"}
       THEN /\ pc' = "ended"
            /\ ended_by' = "exit"
            /\ UNCHANGED <<chat_history, caller, retries, response, slept, h0,
                           requests, exec_log, prompts, answer>>
       ELSE /\ Len(chat_history) < MaxHist
            /\ ChatEnter(chat_history, user_input, "turn")
            /\ ended_by' = ""
            /\ exec_log' = <<>>
            /\ prompts' = 0
            /\ answer' = "(none)"
    /\ UNCHANGED <<fs, API_KEY, root_dir, state_file, sent, pending,
                   last_reply, reported>>

(* chat_with_ai, lines 145-151 and 160-165: the request raises a           *)
(* RequestException.  ConnectionError (like Timeout) is raised by          *)
(* requests.post, before response is assigned; HTTPError is raised by      *)
(* raise_for_status, after it.  The handler reads response.                *)
Transport(kind, name) ==
    /\ pc = "request"
    /\ sent' = payload_contents
    /\ requests' = requests + 1
    /\ last_reply' = kind
    /\ retries' = retries + 1
    /\ response' = IF kind = "HTTPError" THEN "bound" ELSE response
    /\ IF response' = "unbound"
       THEN /\ pc' = "ended"
            /\ ended_by' = "UnboundLocalError"
            /\ UNCHANGED <<slept, fs, root_dir, state_file, reported, pending,
                           exec_log, prompts>>
       ELSE /\ slept' = Append(slept, BackoffBase ^ retries')
            /\ IF retries' < MaxRetries
               THEN UNCHANGED <<pc, ended_by, fs, root_dir, state_file,
                                reported, pending, exec_log, prompts>>
               ELSE Goto(AfterChat(NoReply, name, chat_history))
    /\ UNCHANGED <<API_KEY, chat_history, caller, h0, answer>>

(* Repair with the corrective prompt appended under the model's role *)
Repair_as_model(prompt) ==
    /\ chat_history' = Append(chat_history, Msg("model", prompt))
    /\ UNCHANGED <<pc, ended_by, fs, root_dir, state_file, reported, pending,
                   exec_log, prompts, retries>>

(* Repair that posts the request again without the corrective prompt *)
Repair_silent(prompt) ==
    /\ chat_history' = chat_history
    /\ UNCHANGED <<pc, ended_by, fs, root_dir, state_file, reported, pending,
                   exec_log, prompts, retries>>

(* lines 166-172: the corrective prompt is appended and the loop continues *)
Repair(prompt) ==
    /\ chat_history' = Append(chat_history, Msg("user", prompt))
    /\ UNCHANGED <<pc, ended_by, fs, root_dir, state_file, reported, pending,
                   exec_log, prompts, retries>>

(* chat_with_ai, lines 152-153 and 166-172: the response arrives but holds *)
(* no candidates[0].content.parts[0].text (KeyError)                       *)
BadEnvelope ==
    /\ pc = "request"
    /\ Len(chat_history) < MaxHist
    /\ sent' = payload_contents
    /\ requests' = requests + 1
    /\ last_reply' = "KeyError"
    /\ response' = "bound"
    /\ Repair(RetryPromptKey)
    /\ UNCHANGED <<API_KEY, caller, h0, answer, slept>>

(* Reply that appends the model's message before it parses the text *)
Reply_append_first(text, name) ==
    /\ pc = "request"
    /\ Len(chat_history) + 1 < MaxHist
    /\ sent' = payload_contents
    /\ requests' = requests + 1
    /\ last_reply' = text
    /\ response' = "bound"
    /\ LET parsed_json == json_loads(text)
           appended == Append(chat_history, Msg("model", text))
       IN  IF parsed_json.type = "JSONDecodeError"
           THEN /\ chat_history' =
                     Append(appended, Msg("user", RetryPromptJSON))
                /\ UNCHANGED <<pc, ended_by, fs, root_dir, state_file,
                               reported, pending, exec_log, prompts, retries>>
           ELSE /\ chat_history' = appended
                /\ retries' = retries
                /\ Goto(AfterChat(parsed_json, name, chat_history'))
    /\ UNCHANGED <<API_KEY, caller, h0, answer, slept>>

(* chat_with_ai, lines 152-158 and 166-172: the response carries text.     *)
(* Text that json.loads rejects is answered with the corrective prompt;    *)
(* text it accepts is appended as the model's message and returned.        *)
Reply(text, name) ==
    /\ pc = "request"
    /\ Len(chat_history) < MaxHist
    /\ sent' = payload_contents
    /\ requests' = requests + 1
    /\ last_reply' = text
    /\ response' = "bound"
    /\ LET parsed_json == json_loads(text)
       IN  IF parsed_json.type = "JSONDecodeError"
           THEN Repair(RetryPromptJSON)
           ELSE /\ chat_history' = Append(chat_history, Msg("model", text))
                /\ retries' = retries
                /\ Goto(AfterChat(parsed_json, name, chat_history'))
    /\ UNCHANGED <<API_KEY, caller, h0, answer, slept>>

(* main, lines 339-346: the operator answers the approval prompt *)
Approve(approval, name) ==
    /\ pc = "approve"
    /\ answer' = approval
    /\ IF lower(approval) = "y"
       THEN /\ Goto(RunAction(pending, name, chat_history))
            /\ chat_history' = chat_history
       ELSE /\ Len(chat_history) < MaxHist
            /\ chat_history' = Append(chat_history, Msg("user", DeclineNotice))
            /\ pc' = "prompt"
            /\ pending' = NoAction
            /\ UNCHANGED <<ended_by, fs, root_dir, state_file, reported,
                           exec_log, prompts>>
    /\ UNCHANGED <<API_KEY, caller, retries, response, slept, sent, h0,
                   requests, last_reply>>

TransportErrors == {"ConnectionError", "HTTPError"}

Next ==
    \/ Start
    \/ \E user_input \in Inputs : UserInput(user_input)
    \/ \E kind \in TransportErrors, name \in Names : Transport(kind, name)
    \/ BadEnvelope
    \/ \E text \in Texts, name \in Names : Reply(text, name)
    \/ \E approval \in Answers, name \in Names : Approve(approval, name)

Spec == Init /\ [][Next]_vars

-----------------------------------------------------------------------------
(* Vocabulary of the properties *)

Last(seq) == seq[Len(seq)]

(* the step posts a request *)
Posted == requests' = requests + 1

(* the reply carried text that json.loads rejects / accepts *)
FailsParsing(reply) ==
    reply \in Texts /\ json_loads(reply).type = "JSONDecodeError"
Parses(reply) ==
    reply \in Texts /\ json_loads(reply).type # "JSONDecodeError"

(* a decoded value of the ActionResponse shape: an object with a message   *)
(* and an action object that names a command                               *)
ShapeOK(value) ==
    /\ value.type = "dict"
    /\ {"message", "action"} \subseteq value.keys
    /\ value.action.type = "dict"
    /\ "command" \in value.action.keys

(* chat_with_ai has returned None and main waits for the next input *)
ReturnedFailure ==
    /\ pc = "prompt"
    /\ retries = MaxRetries
    /\ last_reply \in TransportErrors

(* the messages appended since the running (or last) call was entered *)
Added == SubSeq(chat_history, Len(h0) + 1, Len(chat_history))

IsRetryPrompt(m) == m.role = "user" /\ m.text \in RetryPrompts

-----------------------------------------------------------------------------
(* C1: every call of chat_with_ai returns: each request either ends the    *)
(* call with a well-formed reply or uses up the retry budget, so one call  *)
(* never posts more requests than the budget of MaxRetries allows.         *)
C1_CallEndsWithinBudget == requests <= MaxRetries

(* C2: within one call transport failures are retried at most MaxRetries   *)
(* times, the k-th delay is 2^k (2, 4, 8, 16, 32: strictly increasing),    *)
(* after the MaxRetries-th failure the call has returned None to main, and *)
(* no transport failure leaves the call as an uncaught exception, also     *)
(* when the request raised before a response existed.                      *)
C2_TransportRetries ==
    /\ retries <= MaxRetries
    /\ \A k \in 1..Len(slept) : slept[k] = BackoffBase ^ k
    /\ \A k \in 2..Len(slept) : slept[k] > slept[k - 1]
    /\ last_reply \in TransportErrors =>
         /\ ended_by \notin Exceptions
         /\ Len(slept) = retries
         /\ retries = MaxRetries => pc = "prompt"

(* C3, as the specification states it: when chat_with_ai has returned     *)
(* Failure the history is                                                  *)
(* the history before the call followed by the one submitted user message  *)
(* and nothing else.                                                       *)
C3_OnlyUserTurnAdded ==
    ReturnedFailure =>
        /\ Len(chat_history) = Len(h0) + 1
        /\ SubSeq(chat_history, 1, Len(h0)) = h0
        /\ Last(chat_history).role = "user"

(* C3, amended: when chat_with_ai has returned Failure the history is the  *)
(* history before the call, the submitted user message, and then exactly   *)
(* one reformat request per malformed reply of the call; no model message  *)
(* was appended.                                                           *)
C3_UserTurnAndRepairsAdded ==
    ReturnedFailure =>
        /\ SubSeq(chat_history, 1, Len(h0)) = h0
        /\ Len(Added) = 1 + (requests - retries)
        /\ Added[1].role = "user"
        /\ Added[1].text \in Inputs \cup {GreetInput}
        /\ \A k \in 2..Len(Added) : IsRetryPrompt(Added[k])

C3_Witness ==
    /\ ReturnedFailure
    /\ Len(Added) = 3
    /\ caller = "turn"

(* C4: a reply whose text fails JSON parsing is answered by appending      *)
(* exactly one reformat request and posting the request again: the call    *)
(* does not return, nothing is passed to execute_action, nothing is raised *)
(* and the turn does not end.                                              *)
C4_ParseFailureIsRepaired ==
    [][(Posted /\ FailsParsing(last_reply')) =>
         /\ chat_history' = Append(chat_history,
                                   Msg("user", RetryPromptJSON))
         /\ pc' = "request"
         /\ retries' < MaxRetries
         /\ exec_log' = exec_log
         /\ ended_by' = ""
         /\ UNCHANGED <<fs, root_dir, state_file>>]_vars

C4_Witness ==
    /\ FailsParsing(last_reply)
    /\ pc = "request"
    /\ Last(chat_history) = Msg("user", RetryPromptJSON)
    /\ requests = 2

(* C5: a reply that parses but has not the ActionResponse shape is treated *)
(* as a reply-format error: the model is prompted again, nothing is passed *)
(* to execute_action and no exception ends the session.                    *)
C5_ShapeMismatchIsRepaired ==
    (Parses(last_reply) /\ ~ShapeOK(json_loads(last_reply))) =>
        /\ pc = "request"
        /\ IsRetryPrompt(Last(chat_history))
        /\ exec_log = <<>>
        /\ ended_by \notin Exceptions

-----------------------------------------------------------------------------
(* the step passes an action to execute_action *)
Executes == exec_log' # exec_log /\ exec_log' # <<>>

Affirmative == {"y", "Y"}

(* a decoded reply that carries an action and asks for approval / does not *)
NeedsApproval(value) ==
    /\ value.type = "dict"
    /\ {"message", "action", "requires_approval"} \subseteq value.keys
    /\ ActionTruthy(value.action)
    /\ value.requires_approval
NeedsNoApproval(value) ==
    /\ value.type = "dict"
    /\ {"message", "action"} \subseteq value.keys
    /\ ActionTruthy(value.action)
    /\ ~("requires_approval" \in value.keys /\ value.requires_approval)

(* C6: the action of a reply with requires_approval = true is passed to    *)
(* execute_action only in the step in which the operator answers the       *)
(* approval prompt with y or Y; on any other answer the action is dropped, *)
(* the file system, the state file and root_dir are unchanged and exactly  *)
(* the decline notice is appended to the history.                          *)
C6_ApprovalGate ==
    [][/\ (Executes /\ Parses(last_reply')
             /\ NeedsApproval(json_loads(last_reply'))) =>
            /\ pc = "approve"
            /\ answer' \in Affirmative
            /\ exec_log' = Append(exec_log, pending)
            /\ pending = json_loads(last_reply').action
       /\ (pc = "approve" /\ answer' \in Affirmative) => Executes
       /\ (pc = "approve" /\ pc' # "approve" /\ answer' \notin Affirmative) =>
            /\ ~Executes
            /\ UNCHANGED <<fs, root_dir, state_file>>
            /\ pending' = NoAction
            /\ pc' = "prompt"
            /\ chat_history' = Append(chat_history,
                                      Msg("user", DeclineNotice))]_vars

C6_Witness ==
    /\ pc = "prompt"
    /\ answer = "yes"
    /\ exec_log = <<>>
    /\ root_dir # None
    /\ Last(chat_history) = Msg("user", DeclineNotice)

NeedRoot ==
    {"create_files", "list_files", "milestones", "create_presentation_plan"}

C8_NoRootNoEffect ==
    [][(Executes /\ root_dir = None /\ Last(exec_log').type = "dict"
          /\ Last(exec_log').command \in NeedRoot) =>
         /\ UNCHANGED <<fs, state_file, root_dir>>
         /\ pc' = "prompt"
         /\ ended_by' = ""
         /\ reported' \in {"Error: You must first initialize a project.",
                           "Please create a project first."}]_vars

C8_Witness ==
    /\ pc = "prompt"
    /\ root_dir = None
    /\ exec_log = <<json_loads(T_miles).action>>
    /\ reported = "Please create a project first."
    /\ DOMAIN fs = {cwd, cwd \o <<API_KEY_FILE>>}

(* C9: create_files handles every (path, content) pair of its payload: a   *)
(* pair that cannot be created is reported and the loop goes on, so after  *)
(* the command every pair is on disk as the payload says (a directory for  *)
(* the sentinel, else a file with the content), unless that very path      *)
(* clashes with what is on disk; the command never ends the session.       *)
Indicated(f, p, content) ==
    IF content = CREATE_DIR THEN IsDir(f, p)
    ELSE IsFile(f, p) /\ f[p].content = Written(content) /\ IsDir(f, Parent(p))

Clashes(f, p, content) ==
    \/ \E q \in Prefixes(Parent(p)) : IsFile(f, q)
    \/ content = CREATE_DIR /\ IsFile(f, p)
    \/ content # CREATE_DIR /\ IsDir(f, p)

C9_WholeBatchProcessed ==
    [][(Executes /\ root_dir # None /\ Last(exec_log').type = "dict"
          /\ Last(exec_log').command = "create_files") =>
         /\ ended_by' \notin Exceptions
         /\ \A i \in 1..Len(Last(exec_log').payload.items) :
              LET item == Last(exec_log').payload.items[i]
              IN  \/ Indicated(fs', root_dir \o item[1], item[2])
                  \/ Clashes(fs', root_dir \o item[1], item[2])]_vars

(* C10: the session ends only on a credential error at startup or when the *)
(* operator enters exit or quit; no transport failure, reply-format error, *)
(* I/O error of a command or declined action ends it.                      *)
C10_SessionEndsOnlyOnExit ==
    pc = "ended" => ended_by \in {"credential", "exit"}

-----------------------------------------------------------------------------
(* what a fresh process finds: load_project_state with the globals as the  *)
(* module sets them (root_dir = None, chat_history = [])                   *)
Reloaded == load_project_state(state_file, None, <<>>)

ReloadsCurrentState ==
    /\ Reloaded.loaded
    /\ Reloaded.root_dir = root_dir
    /\ Reloaded.chat_history = chat_history

(* main waits for input after an executed action / an approval decision *)
AfterExecution == pc = "prompt" /\ exec_log # <<>>
AfterDecision == pc = "prompt" /\ answer # "(none)"

(* C11: once a project exists, when main waits for input after an executed *)
(* action or after an approval decision (approve or decline), the state    *)
(* file holds exactly the current root_dir and the current history.        *)
C11_StateFileCurrentAtPrompt ==
    (root_dir # None /\ (AfterExecution \/ AfterDecision)) =>
        /\ state_file.exists
        /\ state_file.root_dir = str(root_dir)
        /\ state_file.chat_history = chat_history

(* C12, as the specification states it: in every state in which           *)
(* save_project_state has just been called, a fresh process that loads the *)
(* state file gets the same root_dir and the same history.                 *)
C12_RoundTripAfterEverySave == AfterExecution => ReloadsCurrentState

(* C12, amended: in every state in which save_project_state has just been  *)
(* called with root_dir set, a fresh process that loads the state file     *)
(* gets the same root_dir and the same history, message for message.       *)
C12_RoundTripWhenRootSet ==
    (AfterExecution /\ root_dir # None) => ReloadsCurrentState

C12_Witness ==
    /\ AfterExecution
    /\ root_dir = cwd \o <<"app">>
    /\ Len(chat_history) = MaxHist
    /\ ReloadsCurrentState

-----------------------------------------------------------------------------
IsPrefix(a, b) == Len(a) <= Len(b) /\ SubSeq(b, 1, Len(a)) = a

(* C13: the history only grows at its end: in every step the history       *)
(* before the step is a prefix of the history after it, so no message is   *)
(* ever removed, reordered, rewritten or merged with another.              *)
C13_HistoryAppendOnly == [][IsPrefix(chat_history, chat_history')]_vars

C13_Witness ==
    /\ Len(chat_history) = MaxHist
    /\ Last(chat_history) = Msg("user", DeclineNotice)
    /\ \E k \in 1..Len(chat_history) : IsRetryPrompt(chat_history[k])
    /\ \E k \in 1..Len(chat_history) : chat_history[k].role = "model"

(* the credential file is missing, or its trimmed content is empty or      *)
(* shorter than the minimum                                                *)
BadCredential ==
    \/ ~IsFile(fs, cwd \o <<API_KEY_FILE>>)
    \/ Len(strip(fs[cwd \o <<API_KEY_FILE>>].content)) < MinKeyLen

(* C14: with a bad credential main ends at startup: the saved state is not *)
(* loaded, no request is posted, no prompt is issued, the history stays    *)
(* empty and no file is written.                                           *)
C14_BadCredentialEndsAtStartup ==
    [][(pc = "start" /\ BadCredential) =>
         /\ pc' = "ended"
         /\ ended_by' = "credential"
         /\ API_KEY' = None
         /\ chat_history' = <<>>
         /\ root_dir' = None
         /\ requests' = 0
         /\ sent' = <<>>
         /\ prompts' = 0
         /\ UNCHANGED <<fs, state_file>>]_vars

C14_Witness ==
    /\ ended_by = "credential"
    /\ state_file.exists
    /\ IsFile(fs, cwd \o <<API_KEY_FILE>>)
    /\ root_dir = None

-----------------------------------------------------------------------------
(* the step executes the milestones command with root_dir set and reports  *)
(* the update                                                              *)
MilestoneStep ==
    /\ Executes
    /\ root_dir # None
    /\ Last(exec_log').type = "dict"
    /\ Last(exec_log').command = "milestones"
    /\ reported' = "Updated milestones"

MilestoneFile(f, rd) == json_load(f[rd \o <<MILESTONE_FILE>>].content)

MilestonePayloads ==
    {json_loads(t).action.payload :
       t \in {u \in Texts : json_loads(u).action.command = "milestones"}}

(* the decoded file is the payload object: its only key is "milestones"    *)
(* and the value is the payload's list                                     *)
HoldsPayload(decoded, payload) ==
    /\ decoded.type = "dict"
    /\ decoded.keys = payload.keys
    /\ decoded.items = payload.milestones

(* C15, as the specification states it: after the milestones command the   *)
(* milestone file's deserialized content equals the milestone list of the  *)
(* payload.                                                                *)
C15_FileEqualsList ==
    [][MilestoneStep =>
         /\ MilestoneFile(fs', root_dir).type = "list"
         /\ MilestoneFile(fs', root_dir).items =
              Last(exec_log').payload.milestones]_vars

(* C15, amended: after the milestones command has reported the update, the *)
(* milestone file's deserialized content equals the payload object of the  *)
(* command, whose only key "milestones" holds the payload's list; after    *)
(* two milestones commands in a row the file holds the payload of the      *)
(* second and no entry of the first.                                       *)
C15_FileEqualsPayload ==
    /\ [][MilestoneStep =>
            HoldsPayload(MilestoneFile(fs', root_dir),
                         Last(exec_log').payload)]_vars
    /\ [](\A p1 \in MilestonePayloads, p2 \in MilestonePayloads :
            LET o1 == milestones(p1, fs, root_dir, state_file)
                o2 == milestones(p2, o1.fs, o1.root_dir, o1.state_file)
            IN  (root_dir # None /\ o1.reported = "Updated milestones") =>
                  /\ o2.reported = "Updated milestones"
                  /\ HoldsPayload(MilestoneFile(o1.fs, root_dir), p1)
                  /\ HoldsPayload(MilestoneFile(o2.fs, root_dir), p2))

C15_Witness ==
    /\ pc = "prompt"
    /\ answer = "y"
    /\ exec_log = <<json_loads(T_miles).action>>
    /\ reported = "Updated milestones"
    /\ fs[root_dir \o <<MILESTONE_FILE>>].content =
         <<"{", "\"milestones\":", "[", "MVP", "Beta", "]", "}">>

-----------------------------------------------------------------------------
(* the model-role messages appended since the call was entered, after the  *)
(* step                                                                    *)
ModelMessagesAdded ==
    {k \in (Len(h0) + 1)..Len(chat_history') : chat_history'[k].role = "model"}

(* C16: the request whose reply text parses ends the call: exactly that    *)
(* raw text is appended as a model-role message, it is the last element of *)
(* the history and the only model message the call appended, and main acts *)
(* on the parse of that same text.                                         *)
C16_SuccessAppendsRawReply ==
    [][(Posted /\ Parses(last_reply')) =>
         /\ chat_history' = Append(chat_history, Msg("model", last_reply'))
         /\ Cardinality(ModelMessagesAdded) = 1
         /\ pc' # "request"
         /\ pc' = "approve" => pending' = json_loads(last_reply').action
         /\ Executes => Last(exec_log') = json_loads(last_reply').action]_vars

C16_Witness ==
    /\ pc = "approve"
    /\ Len(Added) = 3
    /\ IsRetryPrompt(Added[2])
    /\ Added[3] = Msg("model", T_files)
    /\ pending = json_loads(T_files).action

-----------------------------------------------------------------------------
(* the actions the replies carry *)
ReplyActions ==
    {json_loads(t).action :
       t \in {u \in Texts : json_loads(u).action.type = "dict"}}

Idempotent ==
    {"init_project", "list_files", "milestones", "create_presentation_plan",
     "no_action"}

(* execute_action in the current state, and once more right after it with  *)
(* the same action and the same operator input                             *)
Once(a, name) ==
    execute_action(a, name, fs, root_dir, state_file, chat_history)
Twice(a, name) ==
    LET once == Once(a, name)
    IN  execute_action(a, name, once.fs, once.root_dir, once.state_file,
                       chat_history)

(* C17: on every file system and root_dir the program produces, executing *)
(* init_project, list_files, milestones, create_presentation_plan or       *)
(* no_action twice in a row leaves the file system and root_dir as         *)
(* executing it once does; after create_files twice every file of the      *)
(* payload holds the content last written to it.  (fs and root_dir change  *)
(* only when the saved state is loaded, before the first request, and when *)
(* an action is executed, which leads to the prompt or ends main; the      *)
(* states right after these steps show all of them.)                       *)
C17_IdempotentOnRetry ==
    (pc \in {"start", "prompt", "ended"}
       /\ (requests = 0 \/ exec_log # <<>>)) =>
    \A a \in ReplyActions, name \in Names :
        LET once == Once(a, name)
            twice == execute_action(a, name, once.fs, once.root_dir,
                                    once.state_file, chat_history)
            after == twice.fs
        IN  /\ a.command \in Idempotent =>
                 /\ after = once.fs
                 /\ twice.root_dir = once.root_dir
            /\ (a.command = "create_files" /\ root_dir # None) =>
                 \A i \in 1..Len(a.payload.items) :
                    LET p == root_dir \o a.payload.items[i][1]
                        content == a.payload.items[i][2]
                    IN  (content # CREATE_DIR /\ IsFile(after, p)) =>
                           \/ after[p].content = Written(content)
                           \/ IsFile(fs, p) /\ after[p] = fs[p]

C17_Witness ==
    /\ pc = "prompt"
    /\ exec_log = <<json_loads(T_plan).action>>
    /\ IsFile(fs, root_dir \o <<"q3-review.md">>)
    /\ Twice(json_loads(T_plan).action, "app").fs = fs
    /\ Once(json_loads(T_plan).action, "app").reported =
         "Created presentation plan"

-----------------------------------------------------------------------------
(* the outcome of the previous request of the running call was a malformed *)
(* reply                                                                   *)
AfterMalformed ==
    /\ pc = "request"
    /\ requests >= 1
    /\ FailsParsing(last_reply) \/ last_reply = "KeyError"

(* C18: every request chat_with_ai posts, also one posted again after a    *)
(* transport failure or a malformed reply, carries the whole history as it *)
(* is at that moment, in order; posted again after a malformed reply, its  *)
(* last element is the corrective message.                                 *)
C18_RequestCarriesHistory ==
    [][Posted =>
         /\ sent' = chat_history
         /\ IsPrefix(h0, sent') /\ Len(sent') > Len(h0)
         /\ AfterMalformed => IsRetryPrompt(Last(sent'))]_vars

C18_Witness ==
    /\ requests = 3
    /\ last_reply = "HTTPError"
    /\ IsRetryPrompt(Last(sent))
    /\ Len(sent) = Len(h0) + 2
    /\ sent = chat_history

-----------------------------------------------------------------------------
(* the step in which chat_with_ai returns None to main *)
CallFails ==
    /\ pc = "request"
    /\ pc' = "prompt"
    /\ last_reply' \in TransportErrors

(* C19: in a turn execute_action is invoked at most once, with the action  *)
(* of the reply received in that turn, and not after a decline; no action  *)
(* is kept pending beyond its turn; the step in which chat_with_ai returns *)
(* Failure executes nothing and writes no state file or other file.        *)
C19_OneExecutionPerTurn ==
    /\ [](/\ Len(exec_log) <= 1
          /\ exec_log # <<>> =>
               /\ requests >= 1
               /\ Parses(last_reply)
               /\ exec_log[1] = json_loads(last_reply).action
               /\ answer \in Affirmative \cup {"(none)"}
          /\ pc \in {"prompt", "request"} => pending = NoAction
          /\ pc = "approve" =>
               /\ pending = json_loads(last_reply).action
               /\ exec_log = <<>>)
    /\ [][CallFails =>
            /\ exec_log' = exec_log
            /\ pending' = NoAction
            /\ UNCHANGED <<fs, root_dir, state_file>>]_vars

C19_Witness ==
    /\ ReturnedFailure
    /\ caller = "turn"
    /\ root_dir # None
    /\ exec_log = <<>>
    /\ state_file.chat_history # chat_history

-----------------------------------------------------------------------------
(* C20: root_dir changes only when the saved state is loaded at startup    *)
(* and when init_project is executed; once set it is never unset; the      *)
(* requests of chat_with_ai, the approval prompt and every other command   *)
(* leave it as it is.                                                      *)
C20_RootDirOnlyByInit ==
    [][/\ root_dir' # root_dir =>
            \/ pc = "start" /\ state_file.exists
            \/ /\ Executes
               /\ Last(exec_log').type = "dict"
               /\ Last(exec_log').command = "init_project"
       /\ root_dir # None => root_dir' # None]_vars

C20_Witness ==
    /\ pc = "prompt"
    /\ root_dir = cwd \o <<"app">>
    /\ ~state_file.exists \/ state_file.chat_history # SavedHistory
    /\ exec_log = <<json_loads(T_init).action>>
    /\ answer = "Y"
    /\ IsDir(fs, root_dir)

====
